---- MODULE Spec2Model ----
(***************************************************************************)
(* A model of ez_lib/postgres.py: AsyncPgWrapper (the pool manager), the   *)
(* session scope produced by AsyncPgWrapper.get_session(), and the units   *)
(* of work that run inside such scopes.                                    *)
(*                                                                         *)
(* get_session() is an async generator wrapped by                          *)
(* contextlib.asynccontextmanager.  Its await points (session.rollback(),  *)
(* session.close()) are suspension points, so each is split into the call  *)
(* (the step that reaches the await) and the driver's answer (the step     *)
(* that resumes the generator, normally or with an error).                 *)
(***************************************************************************)
EXTENDS Naturals, Sequences, FiniteSets, TLC

\* ------------------------------------------------------------- bounds

\* create_async_engine(pool_size=...): connections the pool keeps.
PoolSize == 1
\* create_async_engine(max_overflow=...): connections allowed beyond PoolSize.
MaxOverflow == 0
\* How many init() calls one pool manager receives in one run.
MaxInits == 1
\* How many close() calls one pool manager receives in one run.
MaxCloses == 2
\* PgSessionSingleton objects constructed in a run.
MaxRegisters == 2
\* The longest list of records handed to model_list_to_dict.
MaxLen == 3

\* ------------------------------------------------------------- values

Managers == {"m1", "m2"}
Tasks == {"t1", "t2"}
Loggers == {"L1", "L2"}
\* Python's None.
None == "None"
\* None where an engine is expected (self._engine, self._session_maker).
NoEngine == 0
Engines == 1..(MaxInits * Cardinality(Managers))
SessionIds == 1..Cardinality(Tasks)

\* Errors a scope body may raise: an ordinary exception, or the
\* asyncio.CancelledError delivered at a suspension point of the body.
BodyErrors == {"Error"}
CancelledError == "CancelledError"
\* sqlalchemy.exc.TimeoutError: the pool's checkout timed out.
TimeoutError == "TimeoutError"
\* The RuntimeError of get_session's guard.
NotInitialized == "RuntimeError"
\* Calling None: 'NoneType' object is not callable.
TypeError == "TypeError"
\* None.pool: 'NoneType' object has no attribute 'pool'.
AttributeError == "AttributeError"
\* What a failing session.rollback() / session.close() raises.
RollbackError == "RollbackError"
CloseError == "CloseError"

VARIABLES
    log,            \* AsyncPgWrapper.log: the class attribute
    sink,           \* per logger, the kinds of message written to it
    constructed,    \* the managers whose __init__ has run
    engine,         \* self._engine of each manager (None or an engine)
    session_maker,  \* self._session_maker: None, or the engine it is bound to
    nextEngine,     \* the next engine create_async_engine will build
    pool,           \* per engine: idle and checked-out connections, disposed
    inits,          \* per manager, the init() calls so far
    closeLog,       \* per manager, the outcome of each close() call so far
    nextSession,    \* the next AsyncSession the factories will build
    sessions,       \* per session: its manager, engine, state, calls made on it
    task,           \* per unit of work: where it is in its scope
    instance,       \* PgSessionSingleton._instance: None, or the manager
                    \* the registered accessor object wraps
    registered,     \* history: the managers PgSessionSingleton objects were
                    \* constructed with, oldest first
    model,          \* one AbstractModelHelper object: the value of each of
                    \* its attributes
    arg,            \* the arguments a caller of the helpers holds
    ret,            \* what the last helper call answered its caller
    supplied,       \* history: per manager, the logger its constructor was
                    \* given
    listeners,      \* EventDispatcher._listeners: event -> set of callbacks
    dispatcher_log, \* EventDispatcher._log
    changed,        \* the last register_listener / unregister_listener
                    \* call, with _listeners as it was before the call
    dispatch        \* the dispatch_event call in progress, or the last one

vars == <<log, sink, constructed, engine, session_maker, nextEngine, pool,
          inits, closeLog, nextSession, sessions, task, instance, registered,
          model, arg, ret, supplied, listeners, dispatcher_log, changed,
          dispatch>>

\* The state of the record helpers and of their caller.
helperVars == <<model, arg, ret>>

\* The state of PgSessionSingleton and of its callers.
singletonVars == <<instance, registered>>

managerVars == <<constructed, engine, session_maker, nextEngine, inits,
                 closeLog, supplied>>

\* The state of the EventDispatcher and of its callers.
dispatcherVars == <<listeners, dispatcher_log, changed, dispatch>>

\* ------------------------------------------------------------ helpers

RECURSIVE Count(_, _)
Count(seq, x) ==
    IF seq = <<>> THEN 0
    ELSE (IF seq[1] = x THEN 1 ELSE 0) + Count(Tail(seq), x)

\* The first position of x in seq, 0 when absent.
RECURSIVE IndexFrom(_, _, _)
IndexFrom(seq, x, i) ==
    IF i > Len(seq) THEN 0
    ELSE IF seq[i] = x THEN i ELSE IndexFrom(seq, x, i + 1)

Index(seq, x) == IndexFrom(seq, x, 1)

\* An AsyncSession: the manager and engine it came from, whether it is
\* open, whether it holds a pooled connection, the calls made on it and
\* their answers in order (trace), and the logger its error went to.
NoSession == [mgr |-> None, engine |-> NoEngine, state |-> "none", conn |-> FALSE,
              trace |-> <<>>, loggedTo |-> None]

\* A unit of work: where it is (pc), the manager and session of its scope,
\* the exception now propagating through get_session (exc: newest first,
\* each followed by its __context__), the error its body raised (bodyErr),
\* what its caller observed when the scope ended (raised, <<>> for a normal
\* return), and two facts about the manager when the scope was entered.
IdleTask == [pc |-> "idle", mgr |-> None, session |-> 0, exc |-> <<>>,
             bodyErr |-> None, raised |-> <<>>, inited |-> FALSE,
             afterClose |-> FALSE]

FreshPool == [idle |-> 0, out |-> 0, disposed |-> FALSE]

\* ------------------------------------------- a model class and its data

\* KeyError, raised by d[key] on a dictionary without the key.
KeyError == "KeyError"

\* Attribute names are sequences of tokens, so that startswith('_'),
\* '__' in name and name.split('__') are computed and not assumed: "_" is
\* a leading underscore, "__" the double underscore.
FA == <<"a">>
FNested == <<"addr", "__", "geo", "__", "lat">>
FMyId == <<"my_id">>
FId == <<"id">>
FPriv == <<"_", "priv">>
FSecret == <<"secret">>
FB == <<"b">>

\* self.__class__.__dict__.keys() of one concrete model class, in the order
\* of its class body: a plain field, a nested one, a renamed one, an
\* excluded one, a private one (renamed as well), a second excluded one,
\* and a last plain one.
ClassDict == <<FA, FNested, FMyId, FId, FPriv, FSecret, FB>>
FieldNames == {ClassDict[i] : i \in DOMAIN ClassDict}

\* The class's _serialize_map: model field -> key of the dictionary.
serialize_map == (FMyId :> <<"ident">>) @@ (FPriv :> <<"priv">>)

\* The class's _except_fields.
except_fields == <<FId, FSecret>>

\* self.__table__.c: the keys of the columns of the class's table; the
\* private attribute is a plain class attribute without a column.
TableColumns == <<FA, FNested, FMyId, FId, FSecret, FB>>

\* The value of an attribute: the one it had before any helper ran, or the
\* object found in the dictionary d at a path of keys.
Prior == [from |-> "prior", path |-> <<>>]
Got(path) == [from |-> "d", path |-> path]

\* A new model object.
NewModel == [f \in FieldNames |-> Prior]

\* A dictionary is known by the kind of object at each path of keys:
\* another dictionary ("dict") or anything else ("scalar": str, float,
\* int, bool, None or a list).
Leaves(K) == [p \in {<<k>> : k \in K} |-> "scalar"]
EmptyDict == Leaves({})

KAddr == <<"addr">>
KGeo == <<"geo">>
KLat == <<"lat">>

\* What d may hold under "addr": nothing, a scalar, and dictionaries that
\* stop before, at, or after "geo" and "lat".
AddrShapes ==
    { EmptyDict,
      <<KAddr>> :> "scalar",
      <<KAddr>> :> "dict",
      (<<KAddr>> :> "dict") @@ (<<KAddr, KGeo>> :> "scalar"),
      (<<KAddr>> :> "dict") @@ (<<KAddr, KGeo>> :> "dict"),
      (<<KAddr>> :> "dict") @@ (<<KAddr, KGeo>> :> "dict")
          @@ (<<KAddr, KGeo, KLat>> :> "scalar") }

\* The other keys d may hold, each with a scalar.
TopKeys == {<<"a">>, <<"b">>, <<"ident">>, <<"id">>, <<"priv">>}

SourceDicts == {Leaves(K) @@ shape : K \in SUBSET TopKeys, shape \in AddrShapes}

\* getattr(model, id_field_name) of a record handed to model_list_to_dict:
\* an int, a str (known by its length), None, or no such attribute.
IdInt(n) == [type |-> "int", v |-> n]
IdStr(len) == [type |-> "str", v |-> len]
IdNone == [type |-> "NoneType", v |-> 0]
IdMissing == [type |-> "missing", v |-> 0]
IdValues == {IdInt(0), IdInt(1), IdInt(2), IdStr(0), IdStr(1), IdNone, IdMissing}

\* Lists of records; a record is known by its position in the list and
\* carries its id value.
RECURSIVE SeqsUpTo(_, _)
SeqsUpTo(S, n) ==
    IF n = 0 THEN {<<>>}
    ELSE LET shorter == SeqsUpTo(S, n - 1) IN
         shorter \cup {Append(q, x) : q \in shorter, x \in S}

\* What a caller of the helpers holds: a dictionary and the strict flag
\* for from_dict, or a list of records for model_list_to_dict.
NoArg == [op |-> "none", d |-> EmptyDict, strict |-> FALSE, models |-> <<>>]
FromDictArgs ==
    {[op |-> "from_dict", d |-> d, strict |-> st, models |-> <<>>] :
         d \in SourceDicts, st \in BOOLEAN}
ModelListArgs ==
    {[op |-> "model_list_to_dict", d |-> EmptyDict, strict |-> FALSE,
      models |-> ms] : ms \in SeqsUpTo(IdValues, MaxLen)}

\* No helper has been called.
NoRet == [op |-> "none", raised |-> None, at |-> <<>>, value |-> <<>>,
          include |-> {}, logged |-> {}]

\* --------------------------------------------- events and callbacks

\* The events listeners are registered for, and the callbacks.
Events == {"e1", "e2"}
Callbacks == {"cb1", "cb2", "cb3"}

\* No register_listener or unregister_listener call has been made.
NoChange == [op |-> "none", event |-> None, callback |-> None,
             before |-> <<>>]

\* No dispatch_event call has been made.  Of a call: its event, the
\* listener set of the event when the call started, the copy's callbacks
\* still to invoke, how often each callback was invoked, and what the
\* caller got (raised: None for a normal return).
NoDispatch == [pc |-> "none", event |-> None, started |-> {},
               pending |-> {}, invoked |-> [c \in Callbacks |-> 0],
               raised |-> None]

\* ------------------------------------------------------------ initial

Init ==
    /\ log = None
    /\ sink = [l \in Loggers |-> {}]
    /\ constructed = {}
    /\ engine = [m \in Managers |-> NoEngine]
    /\ session_maker = [m \in Managers |-> NoEngine]
    /\ nextEngine = 1
    /\ pool = [e \in Engines |-> FreshPool]
    /\ inits = [m \in Managers |-> 0]
    /\ closeLog = [m \in Managers |-> <<>>]
    /\ nextSession = 1
    /\ sessions = [s \in SessionIds |-> NoSession]
    /\ task = [t \in Tasks |-> IdleTask]
    /\ instance = None
    /\ registered = <<>>
    /\ supplied = [m \in Managers |-> None]
    /\ listeners = <<>>
    /\ dispatcher_log = None
    /\ changed = NoChange
    /\ dispatch = NoDispatch
    /\ model = NewModel
    /\ arg = NoArg
    /\ ret = NoRet

\* ---------------------------------------------------- AsyncPgWrapper

\* logger.info / logger.error on the logger AsyncPgWrapper.log names now;
\* nothing is written when it is None.
Logged(kind) ==
    IF log = None THEN sink
    ELSE [sink EXCEPT ![log] = @ \cup {kind}]

\* AsyncPgWrapper.__init__: the instance has no engine and no session
\* factory yet; the logger is stored on the class, not on the instance.
Construct(m, lg) ==
    /\ m \notin constructed
    /\ constructed' = constructed \cup {m}
    /\ engine' = [engine EXCEPT ![m] = NoEngine]
    /\ session_maker' = [session_maker EXCEPT ![m] = NoEngine]
    /\ log' = lg
    /\ supplied' = [supplied EXCEPT ![m] = lg]
    /\ UNCHANGED <<singletonVars, helperVars, dispatcherVars,
                   sink, nextEngine, pool, inits, closeLog, nextSession,
                   sessions, task>>

\* AsyncPgWrapper.init: a new engine with its own pool, a session factory
\* bound to it, and an info message when a logger is set.  No connection is
\* opened.
init(m) ==
    /\ m \in constructed
    /\ inits[m] < MaxInits
    /\ inits' = [inits EXCEPT ![m] = @ + 1]
    /\ engine' = [engine EXCEPT ![m] = nextEngine]
    /\ session_maker' = [session_maker EXCEPT ![m] = nextEngine]
    /\ pool' = [pool EXCEPT ![nextEngine] = FreshPool]
    /\ nextEngine' = nextEngine + 1
    /\ sink' = Logged("info")
    /\ UNCHANGED <<singletonVars, helperVars, dispatcherVars,
                   supplied, log, constructed, closeLog, nextSession, sessions, task>>

\* Pool.dispose(): the idle connections are closed; checked-out ones stay
\* with their sessions, and the pool object stays in place.
Dispose(p) == [p EXCEPT !.idle = 0, !.disposed = TRUE]

PoolClosed(p) == p.disposed /\ p.idle = 0

\* A buggy close() that forgets the engine once its pool is disposed.
closeDroppingEngine(m) ==
    /\ m \in constructed
    /\ Len(closeLog[m]) < MaxCloses
    /\ IF engine[m] = NoEngine
       THEN /\ closeLog' = [closeLog EXCEPT ![m] =
                   Append(@, [inited |-> FALSE, raised |-> AttributeError,
                              closed |-> FALSE])]
            /\ UNCHANGED <<pool, engine, session_maker>>
       ELSE /\ pool' = [pool EXCEPT ![engine[m]] = Dispose(@)]
            /\ engine' = [engine EXCEPT ![m] = NoEngine]
            /\ session_maker' = [session_maker EXCEPT ![m] = NoEngine]
            /\ closeLog' = [closeLog EXCEPT ![m] =
                   Append(@, [inited |-> TRUE, raised |-> None,
                              closed |-> PoolClosed(pool'[engine[m]])])]
    /\ UNCHANGED <<singletonVars, helperVars, dispatcherVars,
                   supplied, log, sink, constructed, nextEngine, inits, nextSession,
                   sessions, task>>

\* AsyncPgWrapper.close: self._engine.pool.dispose().  On a manager without
\* an engine the attribute access on None raises.  Nothing else changes:
\* the engine and the session factory stay set.
close(m) ==
    /\ m \in constructed
    /\ Len(closeLog[m]) < MaxCloses
    /\ IF engine[m] = NoEngine
       THEN /\ closeLog' = [closeLog EXCEPT ![m] =
                   Append(@, [inited |-> FALSE, raised |-> AttributeError,
                              closed |-> FALSE])]
            /\ UNCHANGED pool
       ELSE /\ pool' = [pool EXCEPT ![engine[m]] = Dispose(@)]
            /\ closeLog' = [closeLog EXCEPT ![m] =
                   Append(@, [inited |-> TRUE, raised |-> None,
                              closed |-> PoolClosed(pool'[engine[m]])])]
    /\ UNCHANGED <<singletonVars, helperVars, dispatcherVars,
                   supplied, log, sink, constructed, engine, session_maker, nextEngine,
                   inits, nextSession, sessions, task>>

\* ------------------------------------------------------- get_session

\* The name async_sessionmaker imported from sqlalchemy.ext.asyncio: the
\* class itself, which is truthy whenever AsyncPgWrapper is defined at all.
async_sessionmaker == TRUE

\* A session factory that hands out a session it already gave out.
SessionFactoryReusing(m) ==
    IF \E s \in SessionIds : sessions[s].mgr = m /\ sessions[s].state = "open"
    THEN CHOOSE s \in SessionIds :
             sessions[s].mgr = m /\ sessions[s].state = "open"
    ELSE nextSession

\* self._session_maker(): every call constructs a new AsyncSession.
SessionFactory(m) == nextSession

\* A close() has returned normally on manager m.
ClosedBefore(m) ==
    \E i \in 1..Len(closeLog[m]) : closeLog[m][i].raised = None

\* get_session up to its yield (__aenter__).  The guard tests the imported
\* class, not self._session_maker; on a manager without a factory the call
\* of None raises.  Otherwise a new session is built (no connection is
\* checked out) and the body starts.
Enter(t, m) ==
    /\ task[t].pc = "idle"
    /\ m \in constructed
    /\ IF ~async_sessionmaker
       THEN /\ task' = [task EXCEPT ![t] = [@ EXCEPT
                   !.pc = "failed", !.mgr = m,
                   !.raised = <<NotInitialized>>,
                   !.inited = session_maker[m] # NoEngine,
                   !.afterClose = ClosedBefore(m)]]
            /\ UNCHANGED <<nextSession, sessions>>
       ELSE IF session_maker[m] = NoEngine
       THEN /\ task' = [task EXCEPT ![t] = [@ EXCEPT
                   !.pc = "failed", !.mgr = m,
                   !.raised = <<TypeError>>,
                   !.inited = FALSE,
                   !.afterClose = ClosedBefore(m)]]
            /\ UNCHANGED <<nextSession, sessions>>
       ELSE LET s == SessionFactory(m) IN
            /\ sessions' = [sessions EXCEPT ![s] =
                   [mgr |-> m, engine |-> session_maker[m], state |-> "open",
                    conn |-> FALSE, trace |-> <<>>, loggedTo |-> None]]
            /\ nextSession' = IF s = nextSession THEN nextSession + 1
                              ELSE nextSession
            /\ task' = [task EXCEPT ![t] = [@ EXCEPT
                   !.pc = "body", !.mgr = m, !.session = s,
                   !.inited = TRUE,
                   !.afterClose = ClosedBefore(m)]]
    /\ UNCHANGED <<singletonVars, helperVars, dispatcherVars,
                   log, sink, pool, managerVars>>

\* An init() that hands pool_size to create_async_engine as max_overflow.
CapacityWrongOverflow == PoolSize + PoolSize

\* The pool's limit on checked-out connections, as init() configures it:
\* pool_size plus max_overflow.
Capacity == PoolSize + MaxOverflow

\* A driver round trip in the body (session.execute): the session's first
\* one checks a connection out of its engine's pool, when the pool has one
\* to give.
BodyExecute(t) ==
    LET s == task[t].session
        e == sessions[s].engine IN
    /\ task[t].pc = "body"
    /\ ~sessions[s].conn
    /\ pool[e].out < Capacity
    /\ pool' = [pool EXCEPT ![e] = [@ EXCEPT
           !.out = @ + 1,
           !.idle = IF @ > 0 THEN @ - 1 ELSE 0]]
    /\ sessions' = [sessions EXCEPT ![s] = [@ EXCEPT
           !.conn = TRUE, !.trace = Append(@, "checkout")]]
    /\ UNCHANGED <<singletonVars, helperVars, dispatcherVars,
                   log, sink, nextSession, task, managerVars>>

\* A clean exit that commits for the caller before closing.
BodyReturnsCommitting(t) ==
    LET s == task[t].session IN
    /\ task[t].pc = "body"
    /\ sessions' = [sessions EXCEPT ![s] = [@ EXCEPT
           !.trace = @ \o <<"commit", "close">>]]
    /\ task' = [task EXCEPT ![t] = [@ EXCEPT !.pc = "close"]]
    /\ UNCHANGED <<singletonVars, helperVars, dispatcherVars,
                   log, sink, pool, nextSession, managerVars>>

\* The body ends without an error: the generator resumes after the yield,
\* skips the except clause and reaches the finally clause's
\* await session.close().
BodyReturns(t) ==
    LET s == task[t].session IN
    /\ task[t].pc = "body"
    /\ sessions' = [sessions EXCEPT ![s] = [@ EXCEPT
           !.trace = Append(@, "close")]]
    /\ task' = [task EXCEPT ![t] = [@ EXCEPT !.pc = "close"]]
    /\ UNCHANGED <<singletonVars, helperVars, dispatcherVars,
                   log, sink, pool, nextSession, managerVars>>

\* An except clause that writes its log entry once rollback() was called.
ExceptClauseLoggingLate(t, e) ==
    LET s == task[t].session IN
    /\ sink' = Logged("error")
    /\ sessions' = [sessions EXCEPT ![s] = [@ EXCEPT
           !.trace = @ \o <<"rollback">>
                       \o (IF log = None THEN <<>> ELSE <<"log">>),
           !.loggedTo = log]]
    /\ task' = [task EXCEPT ![t] = [@ EXCEPT
           !.pc = "rollback", !.exc = <<e>>, !.bodyErr = e]]

\* except BaseException as e: the error is thrown into the generator at
\* the yield; the clause logs it when AsyncPgWrapper.log is set and then
\* reaches await session.rollback().
ExceptClause(t, e) ==
    LET s == task[t].session IN
    /\ sink' = Logged("error")
    /\ sessions' = [sessions EXCEPT ![s] = [@ EXCEPT
           !.trace = @ \o (IF log = None THEN <<>> ELSE <<"log">>)
                       \o <<"rollback">>,
           !.loggedTo = log]]
    /\ task' = [task EXCEPT ![t] = [@ EXCEPT
           !.pc = "rollback", !.exc = <<e>>, !.bodyErr = e]]

\* The body raises an error of its own.
BodyRaises(t, e) ==
    /\ task[t].pc = "body"
    /\ ExceptClause(t, e)
    /\ UNCHANGED <<singletonVars, helperVars, dispatcherVars,
                   log, pool, nextSession, managerVars>>

\* The unit of work is cancelled while it is suspended in the body.
Cancel(t) ==
    /\ task[t].pc = "body"
    /\ ExceptClause(t, CancelledError)
    /\ UNCHANGED <<singletonVars, helperVars, dispatcherVars,
                   log, pool, nextSession, managerVars>>

\* A driver round trip in the body finds every connection of the pool
\* checked out and gives up after pool_timeout: the error is raised in the
\* body.
ExecuteTimesOut(t) ==
    LET s == task[t].session
        e == sessions[s].engine IN
    /\ task[t].pc = "body"
    /\ ~sessions[s].conn
    /\ pool[e].out >= Capacity
    /\ ExceptClause(t, TimeoutError)
    /\ UNCHANGED <<singletonVars, helperVars, dispatcherVars,
                   log, pool, nextSession, managerVars>>

\* A scope whose close() sits after the try statement instead of in a
\* finally clause: a failing rollback leaves the scope without closing.
RollbackFailsSkippingClose(t) ==
    LET s == task[t].session IN
    /\ task[t].pc = "rollback"
    /\ sessions' = [sessions EXCEPT ![s] = [@ EXCEPT
           !.trace = Append(@, "rollback_fail")]]
    /\ task' = [task EXCEPT ![t] = [@ EXCEPT
           !.pc = "exited",
           !.exc = <<RollbackError>> \o @,
           !.raised = <<RollbackError>> \o task[t].exc]]
    /\ UNCHANGED <<singletonVars, helperVars, dispatcherVars,
                   log, sink, pool, nextSession, managerVars>>

\* await session.rollback() returns: raise e re-raises the caught error,
\* and the finally clause reaches await session.close().
RollbackReturns(t) ==
    LET s == task[t].session IN
    /\ task[t].pc = "rollback"
    /\ sessions' = [sessions EXCEPT ![s] = [@ EXCEPT
           !.trace = @ \o <<"rollback_ok", "close">>]]
    /\ task' = [task EXCEPT ![t] = [@ EXCEPT !.pc = "close"]]
    /\ UNCHANGED <<singletonVars, helperVars, dispatcherVars,
                   log, sink, pool, nextSession, managerVars>>

\* await session.rollback() raises: raise e is never reached, the new
\* error (its __context__ the caught one) propagates, and the finally
\* clause reaches await session.close().
RollbackFails(t) ==
    LET s == task[t].session IN
    /\ task[t].pc = "rollback"
    /\ sessions' = [sessions EXCEPT ![s] = [@ EXCEPT
           !.trace = @ \o <<"rollback_fail", "close">>]]
    /\ task' = [task EXCEPT ![t] = [@ EXCEPT
           !.pc = "close", !.exc = <<RollbackError>> \o @]]
    /\ UNCHANGED <<singletonVars, helperVars, dispatcherVars,
                   log, sink, pool, nextSession, managerVars>>

\* The pool takes a connection back: it keeps up to PoolSize idle ones.
Release(p) ==
    [p EXCEPT !.out = @ - 1,
              !.idle = IF @ < PoolSize THEN @ + 1 ELSE @]

\* await session.close() returns: the session is closed, its connection is
\* back in the pool, and the scope ends with whatever was propagating.
CloseReturns(t) ==
    LET s == task[t].session
        e == sessions[s].engine IN
    /\ task[t].pc = "close"
    /\ sessions' = [sessions EXCEPT ![s] = [@ EXCEPT
           !.trace = Append(@, "close_ok"),
           !.state = "closed", !.conn = FALSE]]
    /\ pool' = IF sessions[s].conn
               THEN [pool EXCEPT ![e] = Release(@)]
               ELSE pool
    /\ task' = [task EXCEPT ![t] = [@ EXCEPT
           !.pc = "exited", !.raised = task[t].exc]]
    /\ UNCHANGED <<singletonVars, helperVars, dispatcherVars,
                   log, sink, nextSession, managerVars>>

\* await session.close() raises: its error (its __context__ whatever was
\* propagating) leaves the scope; the session was not closed.
CloseFails(t) ==
    LET s == task[t].session IN
    /\ task[t].pc = "close"
    /\ sessions' = [sessions EXCEPT ![s] = [@ EXCEPT
           !.trace = Append(@, "close_fail")]]
    /\ task' = [task EXCEPT ![t] = [@ EXCEPT
           !.pc = "exited",
           !.exc = <<CloseError>> \o @,
           !.raised = <<CloseError>> \o task[t].exc]]
    /\ UNCHANGED <<singletonVars, helperVars, dispatcherVars,
                   log, sink, pool, nextSession, managerVars>>

\* ------------------------------------------------------ specification

\* ------------------------------------------------ PgSessionSingleton

\* The RuntimeError of PgSessionSingleton.get_session: "Unable to access
\* singleton instance, PgSessionWrapper not initialized."
SingletonNotInitialized == "RuntimeError: singleton"

\* A PgSessionSingleton that keeps the manager it was first given.
PgSessionSingletonKeepingFirst(m) ==
    /\ m \in constructed
    /\ Len(registered) < MaxRegisters
    /\ instance' = IF instance = None THEN m ELSE instance
    /\ registered' = Append(registered, m)
    /\ UNCHANGED <<log, sink, pool, nextSession, sessions, task, managerVars,
                   helperVars, dispatcherVars>>

\* PgSessionSingleton(pg_wrapper): the constructor stores the manager on the
\* new object and the new object in the class attribute _instance, whatever
\* was there before.  Nothing is called on either manager.
PgSessionSingleton(m) ==
    /\ m \in constructed
    /\ Len(registered) < MaxRegisters
    /\ instance' = m
    /\ registered' = Append(registered, m)
    /\ UNCHANGED <<log, sink, pool, nextSession, sessions, task, managerVars,
                   helperVars, dispatcherVars>>

\* A get_session that falls back on some constructed manager when nothing
\* is registered.
SingletonGetSessionDefaulting(t) ==
    /\ task[t].pc = "idle"
    /\ IF instance # None
       THEN Enter(t, instance)
       ELSE \E m \in constructed : Enter(t, m)

\* PgSessionSingleton.get_session(): with an object in _instance (an object
\* of a class without __bool__ or __len__ is truthy) the call is that
\* object's manager's get_session(); with None it raises RuntimeError.
SingletonGetSession(t) ==
    /\ task[t].pc = "idle"
    /\ IF instance # None
       THEN Enter(t, instance)
       ELSE /\ task' = [task EXCEPT ![t] = [@ EXCEPT
                   !.pc = "failed", !.raised = <<SingletonNotInitialized>>]]
            /\ UNCHANGED <<log, sink, pool, nextSession, sessions,
                           managerVars, singletonVars, helperVars,
                           dispatcherVars>>

\* ----------------------------------------------- AbstractModelHelper

\* field_name.startswith('_')
StartsWithUnderscore(f) == f[1] \in {"_", "__"}

\* '__' in field_name
HasDoubleUnderscore(f) == \E i \in DOMAIN f : f[i] = "__"

\* field_name.split('__'): the runs of tokens between double underscores.
RECURSIVE SplitFrom(_, _, _)
SplitFrom(f, i, cur) ==
    IF i > Len(f) THEN <<cur>>
    ELSE IF f[i] = "__" THEN <<cur>> \o SplitFrom(f, i + 1, <<>>)
    ELSE SplitFrom(f, i + 1, Append(cur, f[i]))

Split(f) == SplitFrom(f, 1, <<>>)

\* x in lst, for a list.
InList(x, lst) == \E i \in DOMAIN lst : lst[i] = x

\* A from_dict that does not consult _except_fields.
SerializableIgnoringExcept(f) == ~StartsWithUnderscore(f)

\* The test from_dict applies to every name of the class dictionary before
\* anything else: no leading underscore and not in _except_fields.
Serializable(f) ==
    ~StartsWithUnderscore(f) /\ ~InList(f, except_fields)

\* f = d; for nested in arr: f = f[nested].  Subscripting a dictionary
\* without the key raises KeyError; subscripting a str, a number, a bool,
\* None or a list with a str raises TypeError.
RECURSIVE Walk(_, _, _)
Walk(d, at, arr) ==
    IF arr = <<>> THEN [raised |-> None, path |-> at]
    ELSE IF at # <<>> /\ d[at] # "dict"
    THEN [raised |-> TypeError, path |-> at]
    ELSE IF Append(at, Head(arr)) \notin DOMAIN d
    THEN [raised |-> KeyError, path |-> at]
    ELSE Walk(d, Append(at, Head(arr)), Tail(arr))

\* The loop of from_dict from the i-th name of the class dictionary on:
\* rec is the object so far, logged the fields _log_field_not_found was
\* called for.  The renamed branch subscripts d outside any try statement;
\* the two other branches catch KeyError (and nothing else), report the
\* field and re-raise when strict.
RECURSIVE FromDictFrom(_, _, _, _, _)
FromDictFrom(i, rec, logged, d, strict) ==
    IF i > Len(ClassDict)
    THEN [rec |-> rec, raised |-> None, at |-> <<>>, logged |-> logged]
    ELSE
    LET field_name == ClassDict[i]
        Raise(e, lg) == [rec |-> rec, raised |-> e, at |-> field_name,
                         logged |-> lg]
        Skip(lg) == FromDictFrom(i + 1, rec, lg, d, strict)
        Set(path) == FromDictFrom(i + 1,
                         [rec EXCEPT ![field_name] = Got(path)],
                         logged, d, strict)
        missed == logged \cup {field_name}
    IN
    IF ~Serializable(field_name) THEN Skip(logged)
    ELSE IF field_name \in DOMAIN serialize_map
    THEN IF <<serialize_map[field_name]>> \in DOMAIN d
         THEN Set(<<serialize_map[field_name]>>)
         ELSE Raise(KeyError, logged)
    ELSE IF ~HasDoubleUnderscore(field_name)
    THEN IF <<field_name>> \in DOMAIN d
         THEN Set(<<field_name>>)
         ELSE IF strict THEN Raise(KeyError, missed) ELSE Skip(missed)
    ELSE LET w == Walk(d, <<>>, Split(field_name)) IN
         IF w.raised = None THEN Set(w.path)
         ELSE IF w.raised = KeyError
         THEN IF strict THEN Raise(KeyError, missed) ELSE Skip(missed)
         ELSE Raise(w.raised, logged)

\* AbstractModelHelper.from_dict(d, strict) on the model object, with
\* _log_field_not_found writing a debug message when AsyncPgWrapper.log is
\* set.  The attributes assigned before an error stay assigned.
from_dict ==
    LET r == FromDictFrom(1, model, {}, arg.d, arg.strict) IN
    /\ arg.op = "from_dict"
    /\ ret.op = "none"
    /\ model' = r.rec
    /\ ret' = [NoRet EXCEPT !.op = "from_dict", !.raised = r.raised,
                            !.at = r.at, !.logged = r.logged]
    /\ sink' = IF r.logged = {} THEN sink ELSE Logged("debug")
    /\ UNCHANGED <<log, pool, nextSession, sessions, task, managerVars,
                   singletonVars, dispatcherVars, arg>>

\* A to_values_dict that leaves every excluded column out, whatever
\* include says.
InValuesIgnoringInclude(key, include) == ~InList(key, except_fields)

\* The filter of to_values_dict's comprehension.
InValues(key, include) == ~InList(key, except_fields) \/ key \in include

\* {c.key: getattr(self, c.key) for c in self.__table__.c if ...}, from
\* the i-th column on.
RECURSIVE ToValuesDictFrom(_, _, _)
ToValuesDictFrom(i, rec, include) ==
    IF i > Len(TableColumns) THEN <<>>
    ELSE LET key == TableColumns[i]
             rest == ToValuesDictFrom(i + 1, rec, include) IN
         IF InValues(key, include) THEN (key :> rec[key]) @@ rest
         ELSE rest

\* AbstractModelHelper.to_values_dict(include) on the model object, fresh
\* or after from_dict.
to_values_dict(include) ==
    /\ arg.op = "from_dict"
    /\ ret.op \in {"none", "from_dict"}
    /\ ret' = [NoRet EXCEPT !.op = "to_values_dict",
                            !.value = ToValuesDictFrom(1, model, include),
                            !.include = include]
    /\ UNCHANGED <<log, sink, pool, nextSession, sessions, task, managerVars,
                   singletonVars, dispatcherVars, model, arg>>

\* ------------------------------------------------- model_list_to_dict

\* DictKeyMapError, the error of model_list_to_dict.
DictKeyMapError == "DictKeyMapError"

\* bool(x) as Python computes it: a number is true unless it is zero, a
\* str unless it is empty, None never.
Truthy(x) ==
    CASE x.type = "int" -> x.v # 0
      [] x.type = "str" -> x.v # 0
      [] OTHER -> FALSE

\* The loop of model_list_to_dict from the i-th record on: getattr raises
\* AttributeError on a record without the attribute, a falsy value raises
\* DictKeyMapError, and d[id_field] = model replaces an earlier entry.
RECURSIVE ModelListToDictFrom(_, _, _)
ModelListToDictFrom(models, i, d) ==
    IF i > Len(models) THEN [raised |-> None, at |-> <<>>, value |-> d]
    ELSE LET id_field == models[i] IN
         IF id_field = IdMissing
         THEN [raised |-> AttributeError, at |-> <<i>>, value |-> <<>>]
         ELSE IF ~Truthy(id_field)
         THEN [raised |-> DictKeyMapError, at |-> <<i>>, value |-> <<>>]
         ELSE ModelListToDictFrom(models, i + 1, (id_field :> i) @@ d)

\* model_list_to_dict(models, id_field_name): the answer maps id values to
\* records (their positions in models); models is only read.
model_list_to_dict ==
    LET r == ModelListToDictFrom(arg.models, 1, <<>>) IN
    /\ arg.op = "model_list_to_dict"
    /\ ret.op = "none"
    /\ ret' = [NoRet EXCEPT !.op = "model_list_to_dict",
                            !.raised = r.raised, !.at = r.at,
                            !.value = r.value]
    /\ UNCHANGED <<log, sink, pool, nextSession, sessions, task, managerVars,
                   singletonVars, dispatcherVars, model, arg>>

\* --------------------------------------------------- EventDispatcher

\* self._log.warning / self._log.debug: written to the dispatcher's own
\* logger, nothing when it has none.
DispatcherLogged(kind) ==
    IF dispatcher_log = None THEN sink
    ELSE [sink EXCEPT ![dispatcher_log] = @ \cup {kind}]

\* register_listener(event, callback).  s = self._listeners.get(event);
\* when the event has a set, the only thing done is the warning for a
\* callback that is in it: the else that adds the callback belongs to
\* `if s is not None`, so a callback is added only for an event without
\* a set.
register_listener(event, callback) ==
    /\ changed' = [op |-> "register", event |-> event,
                   callback |-> callback, before |-> listeners]
    /\ IF event \in DOMAIN listeners
       THEN /\ listeners' = listeners
            /\ sink' = IF callback \in listeners[event]
                       THEN DispatcherLogged("warning") ELSE sink
       ELSE /\ listeners' = (event :> {callback}) @@ listeners
            /\ sink' = sink
    /\ UNCHANGED <<log, pool, nextSession, sessions, task, managerVars,
                   singletonVars, helperVars, dispatcher_log, dispatch>>

\* unregister_listener(event, callback): the callback is removed from the
\* event's set and an empty set is deleted from the dictionary; a callback
\* or an event that is not there is reported by
\* _log_non_existent_listener.
unregister_listener(event, callback) ==
    /\ changed' = [op |-> "unregister", event |-> event,
                   callback |-> callback, before |-> listeners]
    /\ IF event \in DOMAIN listeners /\ callback \in listeners[event]
       THEN /\ listeners' =
                   IF listeners[event] \ {callback} = {}
                   THEN [e \in DOMAIN listeners \ {event} |-> listeners[e]]
                   ELSE [listeners EXCEPT ![event] = @ \ {callback}]
            /\ sink' = sink
       ELSE /\ listeners' = listeners
            /\ sink' = DispatcherLogged("warning")
    /\ UNCHANGED <<log, pool, nextSession, sessions, task, managerVars,
                   singletonVars, helperVars, dispatcher_log, dispatch>>

\* dispatch_event(event) up to its first callback:
\* self._listeners.get(event) is None for an event without a set and
\* None.copy() raises AttributeError; otherwise the set is copied and its
\* callbacks are to be invoked, or, for an empty copy, the debug message
\* is written and the call returns.
dispatch_event(event) ==
    /\ dispatch.pc # "running"
    /\ IF event \notin DOMAIN listeners
       THEN /\ dispatch' = [NoDispatch EXCEPT !.pc = "raised",
                               !.event = event, !.raised = AttributeError]
            /\ sink' = sink
       ELSE LET s == listeners[event] IN
            IF s # {}
            THEN /\ dispatch' = [NoDispatch EXCEPT !.pc = "running",
                                    !.event = event, !.started = s,
                                    !.pending = s]
                 /\ sink' = sink
            ELSE /\ dispatch' = [NoDispatch EXCEPT !.pc = "returned",
                                    !.event = event]
                 /\ sink' = DispatcherLogged("debug")
    /\ UNCHANGED <<log, pool, nextSession, sessions, task, managerVars,
                   singletonVars, helperVars, listeners, dispatcher_log,
                   changed>>

\* for callback in s: callback(*args, **kwargs), one callback of the copy
\* (a set has no order); the call returns after the last one.  What the
\* callback itself does to the dispatcher is register_listener and
\* unregister_listener steps taken while the dispatch is running.
InvokeCallback(callback) ==
    /\ dispatch.pc = "running"
    /\ callback \in dispatch.pending
    /\ dispatch' = [dispatch EXCEPT
           !.pending = @ \ {callback},
           !.invoked[callback] = @ + 1,
           !.pc = IF dispatch.pending = {callback} THEN "returned" ELSE @]
    /\ UNCHANGED <<log, sink, pool, nextSession, sessions, task, managerVars,
                   singletonVars, helperVars, listeners, dispatcher_log,
                   changed>>

\* num_listeners: the sizes of the sets of the dictionary ls, added up.
RECURSIVE SumLen(_, _)
SumLen(ls, events) ==
    IF events = {} THEN 0
    ELSE LET e == CHOOSE x \in events : TRUE IN
         Cardinality(ls[e]) + SumLen(ls, events \ {e})

num_listeners(ls) == SumLen(ls, DOMAIN ls)

\* One step of the program: an operation on one of the managers Ms, or a
\* step of one of the units of work Ts.  PgSessionSingleton is not used.
NextOn(Ms, Ts) ==
    \/ \E m \in Ms, lg \in Loggers \cup {None} : Construct(m, lg)
    \/ \E m \in Ms : init(m)
    \/ \E m \in Ms : close(m)
    \/ \E t \in Ts, m \in Ms : Enter(t, m)
    \/ \E t \in Ts : BodyExecute(t)
    \/ \E t \in Ts : BodyReturns(t)
    \/ \E t \in Ts, e \in BodyErrors : BodyRaises(t, e)
    \/ \E t \in Ts : Cancel(t)
    \/ \E t \in Ts : ExecuteTimesOut(t)
    \/ \E t \in Ts : RollbackReturns(t)
    \/ \E t \in Ts : RollbackFails(t)
    \/ \E t \in Ts : CloseReturns(t)
    \/ \E t \in Ts : CloseFails(t)

\* Concurrent units of work on one pool manager.
Next == NextOn({"m1"}, Tasks)

Spec == Init /\ [][Next]_vars

\* Several pool managers, one unit of work.
NextManagers == NextOn(Managers, {"t1"})

SpecManagers == Init /\ [][NextManagers]_vars

\* Two managers, accessor objects registered for them, and one unit of
\* work that reaches its session through PgSessionSingleton only.  With a
\* single unit of work no pool runs out of connections, so no round trip
\* times out.
NextSingleton ==
    \/ \E m \in Managers, lg \in Loggers \cup {None} : Construct(m, lg)
    \/ \E m \in Managers : init(m)
    \/ \E m \in Managers : PgSessionSingleton(m)
    \/ SingletonGetSession("t1")
    \/ BodyExecute("t1")
    \/ BodyReturns("t1")
    \/ \E e \in BodyErrors : BodyRaises("t1", e)
    \/ Cancel("t1")
    \/ RollbackReturns("t1")
    \/ RollbackFails("t1")
    \/ CloseReturns("t1")
    \/ CloseFails("t1")

SpecSingleton == Init /\ [][NextSingleton]_vars

\* A caller of the record helpers: it holds a dictionary or a list of
\* records, any that the helpers accept, and nothing else has happened.
InitHelpers ==
    /\ log = None
    /\ sink = [l \in Loggers |-> {}]
    /\ constructed = {}
    /\ engine = [m \in Managers |-> NoEngine]
    /\ session_maker = [m \in Managers |-> NoEngine]
    /\ nextEngine = 1
    /\ pool = [e \in Engines |-> FreshPool]
    /\ inits = [m \in Managers |-> 0]
    /\ closeLog = [m \in Managers |-> <<>>]
    /\ nextSession = 1
    /\ sessions = [s \in SessionIds |-> NoSession]
    /\ task = [t \in Tasks |-> IdleTask]
    /\ instance = None
    /\ registered = <<>>
    /\ supplied = [m \in Managers |-> None]
    /\ listeners = <<>>
    /\ dispatcher_log = None
    /\ changed = NoChange
    /\ dispatch = NoDispatch
    /\ model = NewModel
    /\ arg \in FromDictArgs \cup ModelListArgs
    /\ ret = NoRet

\* The helpers, and the construction of a manager, which is what sets the
\* logger _log_field_not_found writes to.
NextHelpers ==
    \/ \E lg \in Loggers \cup {None} : Construct("m1", lg)
    \/ from_dict
    \/ \E include \in SUBSET {FA, FId, FSecret, FPriv} : to_values_dict(include)
    \/ model_list_to_dict

SpecHelpers == InitHelpers /\ [][NextHelpers]_vars

\* A new EventDispatcher, constructed with a logger or without one, and
\* nothing else has happened.
InitDispatcher ==
    /\ log = None
    /\ sink = [l \in Loggers |-> {}]
    /\ constructed = {}
    /\ engine = [m \in Managers |-> NoEngine]
    /\ session_maker = [m \in Managers |-> NoEngine]
    /\ nextEngine = 1
    /\ pool = [e \in Engines |-> FreshPool]
    /\ inits = [m \in Managers |-> 0]
    /\ closeLog = [m \in Managers |-> <<>>]
    /\ nextSession = 1
    /\ sessions = [s \in SessionIds |-> NoSession]
    /\ task = [t \in Tasks |-> IdleTask]
    /\ instance = None
    /\ registered = <<>>
    /\ supplied = [m \in Managers |-> None]
    /\ listeners = <<>>
    /\ dispatcher_log \in Loggers \cup {None}
    /\ changed = NoChange
    /\ dispatch = NoDispatch
    /\ model = NewModel
    /\ arg = NoArg
    /\ ret = NoRet

\* The calls on the dispatcher, from its users and from the callbacks of a
\* running dispatch.
NextDispatcher ==
    \/ \E e \in Events, c \in Callbacks : register_listener(e, c)
    \/ \E e \in Events, c \in Callbacks : unregister_listener(e, c)
    \/ \E e \in Events : dispatch_event(e)
    \/ \E c \in Callbacks : InvokeCallback(c)

SpecDispatcher == InitDispatcher /\ [][NextDispatcher]_vars

\* ------------------------------------------------------------ claims

\* The session of unit of work t, and the calls made on it.
SessionOf(t) == sessions[task[t].session]
TraceOf(t) == SessionOf(t).trace
Calls(t, call) == Count(TraceOf(t), call)
Exited(t) == task[t].pc = "exited"
\* t holds a leased session: its scope was entered and has not ended.
InScope(t) == task[t].pc \in {"body", "rollback", "close"}

\* C1: whenever a scope whose body raised has ended, rollback() was invoked
\* exactly once, close() exactly once, and the caller observed the body's
\* own error and nothing else.
C1_BodyErrorRolledBackClosedReraised ==
    \A t \in Tasks :
        (Exited(t) /\ task[t].bodyErr # None) =>
            /\ Calls(t, "rollback") = 1
            /\ Calls(t, "close") = 1
            /\ task[t].raised = <<task[t].bodyErr>>

\* C2: whenever a scope whose body returned without an error has ended,
\* close() was invoked exactly once, rollback() never, and the scope made
\* no commit() call.
C2_CleanExitClosesOnly ==
    \A t \in Tasks :
        (Exited(t) /\ task[t].bodyErr = None) =>
            /\ Calls(t, "close") = 1
            /\ Calls(t, "rollback") = 0
            /\ Calls(t, "commit") = 0

C2_Witness ==
    \E t \in Tasks :
        /\ Exited(t)
        /\ task[t].bodyErr = None
        /\ TraceOf(t) = <<"checkout", "close", "close_ok">>
        /\ task[t].raised = <<>>

\* The position in t's trace at which its rollback() call was answered.
RollbackAnswered(t) ==
    IF Index(TraceOf(t), "rollback_ok") > 0
    THEN Index(TraceOf(t), "rollback_ok")
    ELSE Index(TraceOf(t), "rollback_fail")

\* C3: on every way out of a scope (clean, body error, cancellation, a
\* failing rollback) close() is invoked exactly once; when rollback() was
\* invoked, close() is invoked only after rollback() was answered; and
\* once the scope has ended its session is closed, whenever close() itself
\* returned.  Before the scope ends close() is invoked at most once.
C3_ClosedOnceAfterRollback ==
    \A t \in Tasks :
        /\ InScope(t) => Calls(t, "close") <= 1
        /\ Exited(t) =>
            /\ Calls(t, "close") = 1
            /\ Calls(t, "rollback") > 0 =>
                /\ RollbackAnswered(t) > 0
                /\ RollbackAnswered(t) < Index(TraceOf(t), "close")
            /\ Calls(t, "close_fail") = 0 => SessionOf(t).state = "closed"

C3_Witness ==
    \E t \in Tasks :
        /\ Exited(t)
        /\ Calls(t, "rollback_fail") = 1
        /\ Calls(t, "close_ok") = 1
        /\ SessionOf(t).state = "closed"

\* C4: whenever a scope whose body raised has ended, whatever rollback()
\* and close() answered, the caller observed an error and that error is
\* the one the body raised.
C4_TriggeringErrorObserved ==
    \A t \in Tasks :
        (Exited(t) /\ task[t].bodyErr # None) =>
            /\ task[t].raised # <<>>
            /\ Head(task[t].raised) = task[t].bodyErr

\* C5: whenever a scope whose unit of work was cancelled in the body has
\* ended, rollback() was invoked and answered before close() was invoked,
\* and the caller observed the cancellation.
C5_CancellationRollsBackAndPropagates ==
    \A t \in Tasks :
        (Exited(t) /\ task[t].bodyErr = CancelledError) =>
            /\ Calls(t, "rollback") = 1
            /\ RollbackAnswered(t) < Index(TraceOf(t), "close")
            /\ Calls(t, "close") = 1
            /\ task[t].raised # <<>>
            /\ Head(task[t].raised) = CancelledError

\* C6: a get_session() entered on a manager that was never initialised
\* fails with the error of get_session's own guard, and no session exists
\* for it.
C6_UninitialisedFailsWithGuardError ==
    \A t \in Tasks :
        (task[t].pc # "idle" /\ ~task[t].inited) =>
            /\ task[t].pc = "failed"
            /\ task[t].raised = <<NotInitialized>>
            /\ task[t].session = 0

\* The error the specification names for a session requested after close().
PoolClosedError == "PoolClosed"

\* C7 (as claimed): a get_session() entered after close() has returned on
\* its manager fails with PoolClosed and leases no session.
C7_AfterCloseFailsWithPoolClosed ==
    \A t \in Tasks :
        (task[t].pc # "idle" /\ task[t].afterClose) =>
            /\ task[t].pc = "failed"
            /\ task[t].raised = <<PoolClosedError>>
            /\ task[t].session = 0

\* C7 (amended): a get_session() entered after close() has returned on its
\* manager does not fail: it leases an open session of that manager, bound
\* to an engine.
C7_AfterCloseStillLeases ==
    \A t \in Tasks :
        (task[t].pc # "idle" /\ task[t].afterClose) =>
            /\ task[t].pc # "failed"
            /\ task[t].session \in SessionIds
            /\ SessionOf(t).mgr = task[t].mgr
            /\ SessionOf(t).engine \in Engines
            /\ InScope(t) => SessionOf(t).state = "open"

\* A scope entered after close() whose session has checked a connection
\* out of the disposed pool.
C7_Witness ==
    \E t \in Tasks :
        /\ task[t].afterClose
        /\ task[t].pc = "body"
        /\ SessionOf(t).conn
        /\ pool[SessionOf(t).engine].disposed

\* C8 (as claimed): a close() call that follows another close() call on
\* the same manager does not raise, and the pool is closed after each of
\* the two calls.
C8_SecondCloseNeverRaises ==
    \A m \in Managers :
        Len(closeLog[m]) >= 2 =>
            /\ closeLog[m][2].raised = None
            /\ closeLog[m][1].closed
            /\ closeLog[m][2].closed

\* C8 (amended): on a manager that has been initialised, close() returns
\* without raising and leaves the pool closed, and a close() call that
\* follows one that returned does the same.
C8_CloseIdempotentOnceInitialised ==
    \A m \in Managers :
        \A i \in 1..Len(closeLog[m]) :
            /\ closeLog[m][i].inited =>
                   closeLog[m][i].raised = None /\ closeLog[m][i].closed
            /\ (i > 1 /\ closeLog[m][i - 1].raised = None) =>
                   closeLog[m][i].raised = None /\ closeLog[m][i].closed

C8_Witness ==
    \E m \in Managers :
        /\ Len(closeLog[m]) = 2
        /\ closeLog[m][1].raised = None /\ closeLog[m][1].closed
        /\ closeLog[m][2].raised = None /\ closeLog[m][2].closed

\* The units of work that hold a session leased from manager m.
Leasing(m) == {t \in Tasks : InScope(t) /\ task[t].mgr = m}

\* C9: two units of work never hold the same session, every leased session
\* is open and belongs to the manager it was asked from, and while a unit
\* of work is in its body (no error raised there, not yet returned) no
\* rollback() and no close() has been invoked on its session, whatever
\* happened in the other scopes.
C9_ScopesIndependent ==
    /\ \A t, u \in Tasks :
           (t # u /\ task[t].session # 0 /\ task[u].session # 0) =>
               task[t].session # task[u].session
    /\ \A t \in Tasks :
           /\ task[t].session # 0 => SessionOf(t).mgr = task[t].mgr
           /\ task[t].pc = "body" =>
               /\ SessionOf(t).state = "open"
               /\ Calls(t, "rollback") = 0
               /\ Calls(t, "close") = 0

\* One scope has failed, rolled back and closed its session while another
\* scope of the same manager is still in its body.
C9_Witness ==
    \E t, u \in Tasks :
        /\ t # u
        /\ task[t].mgr = task[u].mgr
        /\ task[t].pc = "body" /\ SessionOf(t).conn
        /\ Exited(u) /\ task[u].bodyErr \in BodyErrors
        /\ Calls(u, "rollback_ok") = 1
        /\ SessionOf(u).state = "closed"

\* The sessions with a checked-out connection of engine e.
Holding(e) ==
    {s \in SessionIds : sessions[s].engine = e /\ sessions[s].conn}

LastRegistered == registered[Len(registered)]

\* The unit of work t calls PgSessionSingleton.get_session() in this step
\* (under SpecSingleton no other call takes a unit of work out of "idle").
CallsGetSession(t) == task[t].pc = "idle" /\ task'[t].pc # "idle"

\* C11: PgSessionSingleton.get_session() called while no manager has been
\* registered fails with the accessor's RuntimeError (the spec's
\* NotRegistered), and the call leaves every manager, pool and session as
\* it was.
C11_UnregisteredFailsUntouched ==
    [][\A t \in Tasks :
          (CallsGetSession(t) /\ registered = <<>>) =>
              /\ task'[t].pc = "failed"
              /\ task'[t].raised = <<SingletonNotInitialized>>
              /\ task'[t].mgr = None
              /\ UNCHANGED <<managerVars, pool, sessions, nextSession>>]_vars

\* A unit of work has met the accessor's error although a manager had been
\* constructed and initialised.
C11_Witness ==
    \E t \in Tasks, m \in Managers :
        /\ task[t].pc = "failed"
        /\ task[t].raised = <<SingletonNotInitialized>>
        /\ session_maker[m] # NoEngine
        /\ registered = <<>>

\* C12: _instance holds at most one manager, the one registered last;
\* get_session() goes to that manager and to no earlier one; constructing
\* a PgSessionSingleton calls nothing on any manager (no close, no init),
\* the replaced one included.
C12_DelegatesToLastRegistered ==
    /\ [](/\ instance \in Managers \cup {None}
          /\ (registered = <<>>) <=> (instance = None)
          /\ registered # <<>> => instance = LastRegistered)
    /\ [][/\ \A t \in Tasks :
              (CallsGetSession(t) /\ registered # <<>>) =>
                  /\ task'[t].mgr = LastRegistered
                  /\ task'[t].pc = "body" =>
                         sessions'[task'[t].session].mgr = LastRegistered
          /\ registered' # registered =>
                 UNCHANGED <<managerVars, pool, sessions, task, log,
                             sink>>]_vars

\* Two different managers were registered in turn, both initialised, and
\* a unit of work holds a session of the second one.
C12_Witness ==
    \E t \in Tasks :
        /\ Len(registered) = 2
        /\ registered[1] # registered[2]
        /\ session_maker[registered[1]] # NoEngine
        /\ task[t].pc = "body"
        /\ task[t].mgr = registered[2]
        /\ SessionOf(t).engine = session_maker[registered[2]]

\* ------------------------------------------- order in the except clause

\* The body of t's scope ended with an error and the except clause ran.
Failing(t) == task[t].pc \in {"rollback", "close", "exited"}
                  /\ task[t].bodyErr # None

\* C13: when the body of a scope raised and a logger is configured, the
\* log entry is written after the rollback and before the close: the order
\* is rollback, log, close, re-raise.
C13_RollbackThenLogThenClose ==
    \A t \in Tasks :
        (Failing(t) /\ SessionOf(t).loggedTo # None) =>
            /\ Calls(t, "log") = 1
            /\ Index(TraceOf(t), "rollback") < Index(TraceOf(t), "log")
            /\ Calls(t, "close") = 1 =>
                   Index(TraceOf(t), "log") < Index(TraceOf(t), "close")

\* C13 (amended): when the body of a scope raised, the order is log (exactly
\* when a logger is configured), then rollback, then close, then an error
\* leaves the scope: the log entry is written before rollback() is invoked,
\* and close() is invoked after rollback() was answered.
C13_LogThenRollbackThenClose ==
    \A t \in Tasks :
        Failing(t) =>
            /\ Calls(t, "log") = (IF SessionOf(t).loggedTo # None THEN 1 ELSE 0)
            /\ Calls(t, "rollback") = 1
            /\ SessionOf(t).loggedTo # None =>
                   Index(TraceOf(t), "log") < Index(TraceOf(t), "rollback")
            /\ task[t].pc \in {"close", "exited"} =>
                   /\ Calls(t, "close") = 1
                   /\ Index(TraceOf(t), "rollback") < RollbackAnswered(t)
                   /\ RollbackAnswered(t) < Index(TraceOf(t), "close")
            /\ Exited(t) =>
                   /\ Index(TraceOf(t), "close") < Len(TraceOf(t))
                   /\ task[t].raised # <<>>

\* A scope whose body raised with a logger configured has ended after its
\* rollback and its close returned.
C13_Witness ==
    \E t \in Tasks :
        /\ Exited(t)
        /\ task[t].bodyErr \in BodyErrors
        /\ SessionOf(t).loggedTo \in Loggers
        /\ TraceOf(t) = <<"log", "rollback", "rollback_ok", "close", "close_ok">>
        /\ task[t].raised = <<task[t].bodyErr>>

\* ----------------------------------------------------------- from_dict

\* from_dict has answered, and nothing was called on the object since.
Populated == ret.op = "from_dict"

\* The fields from_dict is to fill: neither private nor excluded.
Fillable == {FA, FNested, FMyId, FB}

\* Where the value of a fillable field lies in the dictionary: under its
\* own name, under its rename-map key, or along its nested path.
KeyPath(f) ==
    CASE f = FA -> <<(<<"a">>)>>
      [] f = FNested -> <<KAddr, KGeo, KLat>>
      [] f = FMyId -> <<(<<"ident">>)>>
      [] f = FB -> <<(<<"b">>)>>

Absent(f) == KeyPath(f) \notin DOMAIN arg.d

\* The position of a field in the enumeration of the class dictionary.
Position(f) == Index(ClassDict, f)

\* C14: with strict = False from_dict raises nothing, whichever keys are
\* absent (a field's own name, a segment of a nested path, a rename-map
\* key): a field whose key is absent keeps its prior value and every
\* other fillable field is assigned.
C14_NonStrictNeverRaises ==
    (Populated /\ ~arg.strict) =>
        /\ ret.raised = None
        /\ \A f \in Fillable :
               model[f] = IF Absent(f) THEN Prior ELSE Got(KeyPath(f))

\* C15: with strict = True and some source key absent, from_dict raises
\* KeyError (the spec's FieldNotFound) at the first field, in enumeration
\* order, whose key is absent; the fields before it hold their assigned
\* values and that field and the later ones are unmodified.
C15_StrictRaisesAtFirstAbsent ==
    (Populated /\ arg.strict /\ \E f \in Fillable : Absent(f)) =>
        \E f \in Fillable :
            /\ Absent(f)
            /\ \A g \in Fillable : Absent(g) => Position(f) <= Position(g)
            /\ ret.raised = KeyError
            /\ ret.at = f
            /\ \A g \in Fillable :
                   model[g] = IF Position(g) < Position(f)
                              THEN Got(KeyPath(g)) ELSE Prior

\* C16: when from_dict comes to the nested field addr__geo__lat, the field
\* is set to d["addr"]["geo"]["lat"] when every segment is present; when a
\* segment (the first, the middle or the last one) is absent the field is
\* treated as missing: unchanged and no error when not strict, KeyError
\* when strict.
C16_NestedPathOrMissing ==
    (Populated /\ ret.at # FA) =>
        IF ~Absent(FNested)
        THEN model[FNested] = Got(KeyPath(FNested)) /\ ret.at # FNested
        ELSE /\ model[FNested] = Prior
             /\ arg.strict => (ret.raised = KeyError /\ ret.at = FNested)
             /\ ~arg.strict => ret.at # FNested

\* C17: from_dict never assigns a field of _except_fields nor a field
\* whose name starts with an underscore, whatever d holds (keys named
\* after those fields, or after their rename-map entries) and whatever
\* strict is.
C17_ExcludedAndPrivateUntouched ==
    Populated =>
        \A f \in FieldNames :
            (InList(f, except_fields) \/ f[1] = "_") => model[f] = Prior

\* A strict from_dict has filled every fillable field from a dictionary
\* that also had the keys "id" and "priv".
C17_Witness ==
    /\ Populated /\ arg.strict
    /\ ret.raised = None
    /\ <<FId>> \in DOMAIN arg.d
    /\ <<(<<"priv">>)>> \in DOMAIN arg.d
    /\ \A f \in Fillable : model[f] = Got(KeyPath(f))
    /\ model[FId] = Prior /\ model[FPriv] = Prior

\* ------------------------------------------------------ to_values_dict

Columns == {TableColumns[i] : i \in DOMAIN TableColumns}
Excluded == {except_fields[i] : i \in DOMAIN except_fields}

\* C18: to_values_dict(include) answers a mapping whose keys are exactly
\* the columns that are not excluded or are in include, each with the
\* object's current value; an excluded column is a key if and only if it
\* is in include; the object is not modified.
C18_ValuesOfIncludedColumns ==
    /\ [](ret.op = "to_values_dict" =>
             /\ DOMAIN ret.value =
                    {c \in Columns : c \notin Excluded \/ c \in ret.include}
             /\ \A k \in DOMAIN ret.value : ret.value[k] = model[k]
             /\ \A c \in Columns \cap Excluded :
                    c \in DOMAIN ret.value <=> c \in ret.include)
    /\ [][ret'.op = "to_values_dict" => model' = model]_vars

\* to_values_dict, asked to include one of the two excluded columns and
\* the private attribute, has answered for an object from_dict had filled.
C18_Witness ==
    /\ ret.op = "to_values_dict"
    /\ ret.include = {FId, FPriv}
    /\ DOMAIN ret.value = {FA, FNested, FMyId, FId, FB}
    /\ ret.value[FA] = Got(KeyPath(FA))
    /\ ret.value[FId] = Prior

\* -------------------------------------------------- model_list_to_dict

Grouped == ret.op = "model_list_to_dict"

\* An id value that is missing, null or empty.
Invalid(x) == x \in {IdMissing, IdNone, IdStr(0)}

\* The last record of the list that carries the id value k.
LastWith(k) ==
    CHOOSE i \in DOMAIN arg.models :
        /\ arg.models[i] = k
        /\ \A j \in DOMAIN arg.models : arg.models[j] = k => j <= i

\* C19: model_list_to_dict raises DictKeyMapError (the spec's
\* KeyMappingError) exactly when some record's id value is missing, null
\* or empty; when every record has a present, non-null, non-empty value
\* (any integer, 0 included) it raises nothing.
C19_FailsExactlyOnInvalidKey ==
    Grouped =>
        /\ ret.raised = DictKeyMapError <=>
               \E i \in DOMAIN arg.models : Invalid(arg.models[i])
        /\ (\A i \in DOMAIN arg.models : ~Invalid(arg.models[i])) =>
               ret.raised = None

\* C20: for a list whose records all carry a valid id value (present,
\* non-null, non-empty), the keys of the answer are exactly the id values
\* in the list and each key maps to the last record with that value.
C20_LastRecordWins ==
    (Grouped /\ \A i \in DOMAIN arg.models : ~Invalid(arg.models[i])) =>
        /\ ret.raised = None
        /\ DOMAIN ret.value = {arg.models[i] : i \in DOMAIN arg.models}
        /\ \A k \in DOMAIN ret.value : ret.value[k] = LastWith(k)

\* ------------------------------------------------- the logger in use

\* C23: the error of a scope is logged to the logger its manager was
\* constructed with (and not at all when it was constructed without one),
\* whatever other managers were constructed since and with whichever
\* logger.
C23_ScopeLogsToItsManagersLogger ==
    \A t \in Tasks :
        Failing(t) =>
            /\ SessionOf(t).loggedTo = supplied[task[t].mgr]
            /\ Calls(t, "log") = (IF supplied[task[t].mgr] = None THEN 0 ELSE 1)

\* ----------------------------------------------------- EventDispatcher

\* The listener set of an event in the dictionary ls, empty without one.
ListenersOf(ls, e) == IF e \in DOMAIN ls THEN ls[e] ELSE {}

\* C21: after register_listener(event, callback) with a callback that was
\* not registered for the event (whether or not the event had other
\* listeners) the callback is in the event's listener set and
\* num_listeners has grown by exactly 1; with a callback that was already
\* registered the listener sets are unchanged; and a dispatch of the event
\* that has returned has invoked every callback registered at its start.
C21_RegisterAddsUnlessPresent ==
    /\ changed.op = "register" =>
           IF changed.callback \in ListenersOf(changed.before, changed.event)
           THEN listeners = changed.before
           ELSE /\ changed.callback \in ListenersOf(listeners, changed.event)
                /\ num_listeners(listeners) =
                       num_listeners(changed.before) + 1
    /\ dispatch.pc = "returned" =>
           \A c \in dispatch.started : dispatch.invoked[c] >= 1

\* C22: dispatch_event never raises on account of the registry: for an
\* event without listeners it invokes nothing and returns; for an event
\* with listeners it invokes each callback registered at its start exactly
\* once and no other, also when listeners are registered or unregistered
\* while it runs.
C22_DispatchNeverFailsOnRegistry ==
    /\ dispatch.raised = None
    /\ \A c \in Callbacks :
           /\ dispatch.invoked[c] <= 1
           /\ dispatch.invoked[c] = 1 => c \in dispatch.started
           /\ dispatch.pc = "returned" =>
                  (dispatch.invoked[c] = 1 <=> c \in dispatch.started)

====
